---- MODULE Spec2Model ----
(***************************************************************************)
(* A model of internal/kdep/project.go: the kdep Project wrapper           *)
(* (WrapProject, ParseRootPackageTree, HackGodepsCompat,                   *)
(* HackExtraVendorEntries) and the workspace command (Workspace            *)
(* aggregation of constraints and workspaceCommand.Run).                   *)
(*                                                                         *)
(* Strings the code inspects (import paths, file paths) are sequences of   *)
(* one-character strings, so strings.HasPrefix and strings.Compare are     *)
(* computed on characters, as the code computes them.                      *)
(***************************************************************************)
EXTENDS Integers, Sequences, FiniteSets, TLC

VARIABLES
    Projects,       \* Workspace.Projects: the manifests of the loaded projects
    depTable,       \* last result of Workspace.DependencyConstraints
    ovrTable,       \* last result of Workspace.Overrides
    pc,             \* position of workspaceCommand.Run
    dryRun,         \* workspaceCommand.dryRun
    runErr,         \* what Run returned
    solverInput,    \* the constraint table gps.Prepare was handed
    solved,         \* the outcome of Solve: "not called", "failed" or "solution"
    wrote,          \* SafeWriter.Write was called
    symlinks,       \* workspace packages whose vendor symlinks were attempted
    printed,        \* PrintPreparedActions was called
    rootTree,       \* params.RootPackageTree, from Workspace.ParseRootPackageTree
    FallbackToDep,  \* the package-level variable of package kdep
    wrapped,        \* the last result of WrapProject
    solution,       \* the gps.Solution handed to HackGodepsCompat
    call            \* the last call of a method of the wrapped Project, with
                    \* its inputs and what it returned

aggVars == <<Projects, depTable, ovrTable>>
runVars == <<pc, dryRun, runErr, solverInput, solved, wrote, symlinks, printed,
            rootTree>>
projVars == <<FallbackToDep, wrapped, solution, call>>
vars == <<Projects, depTable, ovrTable, pc, dryRun, runErr, solverInput, solved,
          wrote, symlinks, printed, rootTree, FallbackToDep, wrapped, solution,
          call>>

\* an absent result, and a present one
None == [some |-> FALSE]

Some(v) == [some |-> TRUE, val |-> v]

(***************************************************************************)
(* Bounds                                                                  *)
(***************************************************************************)
MaxProjects == 2        \* projects of a workspace
NumVersions == 2        \* versions a constraint ranges over
MaxLocalDeps == 2       \* length of Meta.LocalDeps
MaxLocalGopaths == 1    \* length of Meta.LocalGopaths
MaxSolutionProjects == 2 \* projects of a Solution

(***************************************************************************)
(* Sequences                                                               *)
(***************************************************************************)
SeqsUpTo(S, n) == UNION {[1..k -> S] : k \in 0..n}

Range(s) == {s[i] : i \in DOMAIN s}

\* the reorderings of a sequence
Perms(s) ==
    {[i \in DOMAIN s |-> s[f[i]]] :
        f \in {g \in [DOMAIN s -> DOMAIN s] : \A i, j \in DOMAIN s : g[i] = g[j] => i = j}}

(***************************************************************************)
(* Constraints.  A gps.Constraint is the set of versions it admits;        *)
(* Intersect is the library's, modelled from its contract.                 *)
(***************************************************************************)
Versions == 1..NumVersions

Constraints == SUBSET Versions \ {{}}

Intersect(c, d) == c \cap d

Roots == {"a", "b"}

\* a gps.ProjectConstraints: map[ProjectRoot]ProjectProperties
Tables(R) == UNION {[D -> [Constraint : Constraints]] : D \in SUBSET R}

EmptyTable == <<>>

\* a project's manifest, as far as the workspace reads it
ManifestsOver(R) == [deps : Tables(R), ovr : Tables(R)]

\* p.Manifest.DependencyConstraints() and p.Manifest.Overrides()
ManifestDependencyConstraints(m) == m.deps

ManifestOverrides(m) == m.ovr

\* The body of the inner loop shared by DependencyConstraints and Overrides:
\*     p, ok := constraints[root]
\*     if ok { p.Constraint = p.Constraint.Intersect(props.Constraint) }
\*     else  { constraints[root] = props }
\* ProjectProperties is a struct, so p is a copy of the map's value: the
\* assignment to p.Constraint changes the copy and the map keeps its entry.
MergeInto(constraints, root, props) ==
    IF root \in DOMAIN constraints
    THEN LET p == [constraints[root] EXCEPT
                      !.Constraint = Intersect(@, props.Constraint)]
         IN  constraints
    ELSE constraints @@ (root :> props)

\* for root, props := range extra (each root of extra is visited once, so
\* the map's iteration order does not matter)
RECURSIVE MergeManifest(_, _, _)
MergeManifest(constraints, extra, todo) ==
    IF todo = {} THEN constraints
    ELSE LET root == CHOOSE r \in todo : TRUE
         IN  MergeManifest(MergeInto(constraints, root, extra[root]), extra,
                           todo \ {root})

RECURSIVE DependencyConstraintsFrom(_, _, _)
DependencyConstraintsFrom(ps, i, constraints) ==
    IF i > Len(ps) THEN constraints
    ELSE LET extra == ManifestDependencyConstraints(ps[i])
         IN  DependencyConstraintsFrom(ps, i + 1,
                 MergeManifest(constraints, extra, DOMAIN extra))

\* Workspace.DependencyConstraints
DependencyConstraints(ps) == DependencyConstraintsFrom(ps, 1, EmptyTable)

RECURSIVE OverridesFrom(_, _, _)
OverridesFrom(ps, i, constraints) ==
    IF i > Len(ps) THEN constraints
    ELSE LET extra == ManifestOverrides(ps[i])
         IN  OverridesFrom(ps, i + 1,
                 MergeManifest(constraints, extra, DOMAIN extra))

\* Workspace.Overrides
Overrides(ps) == OverridesFrom(ps, 1, EmptyTable)

(***************************************************************************)
(* The workspace, and calls of its two aggregation methods                 *)
(***************************************************************************)
InitAggVars ==
    /\ Projects = <<>>
    /\ depTable = None
    /\ ovrTable = None

InitRunVars ==
    /\ pc = "idle"
    /\ dryRun = FALSE
    /\ runErr = None
    /\ solverInput = None
    /\ solved = "not called"
    /\ wrote = FALSE
    /\ symlinks = {}
    /\ printed = FALSE
    /\ rootTree = None

InitProjVars ==
    /\ FallbackToDep = FALSE
    /\ wrapped = None
    /\ solution = <<>>
    /\ call = None

CallDependencyConstraints ==
    /\ depTable' = Some(DependencyConstraints(Projects))
    /\ UNCHANGED <<Projects, ovrTable, runVars, projVars>>

CallOverrides ==
    /\ ovrTable' = Some(Overrides(Projects))
    /\ UNCHANGED <<Projects, depTable, runVars, projVars>>

\* a workspace as NewWorkspace leaves it: one project per package of the
\* workspace manifest
InitAgg ==
    /\ Projects \in SeqsUpTo(ManifestsOver(Roots), MaxProjects)
    /\ depTable = None
    /\ ovrTable = None
    /\ InitRunVars /\ InitProjVars

NextAgg == CallDependencyConstraints \/ CallOverrides

SpecAgg == InitAgg /\ [][NextAgg]_vars

(***************************************************************************)
(* C1, C2                                                                  *)
(***************************************************************************)
\* the projects whose table declares root
Declaring(ps, get(_), root) == {i \in DOMAIN ps : root \in DOMAIN get(ps[i])}

RECURSIVE IntersectAll(_)
IntersectAll(cs) ==
    IF cs = {} THEN Versions
    ELSE LET c == CHOOSE x \in cs : TRUE IN c \cap IntersectAll(cs \ {c})

IsIntersection(table, ps, get(_)) ==
    \A root \in Roots :
        Cardinality(Declaring(ps, get, root)) > 1 =>
            /\ root \in DOMAIN table
            /\ table[root].Constraint =
                 IntersectAll({get(ps[i])[root].Constraint :
                                  i \in Declaring(ps, get, root)})

\* C1: for every ProjectRoot declared by more than one manifest, the
\* constraint stored in the table returned by DependencyConstraints, and in
\* the one returned by Overrides, is the intersection of all constraints
\* declared for it.
C1_MergedIsIntersection ==
    /\ depTable # None =>
           IsIntersection(depTable.val, Projects, ManifestDependencyConstraints)
    /\ ovrTable # None =>
           IsIntersection(ovrTable.val, Projects, ManifestOverrides)

\* C2: the table returned by DependencyConstraints, and by Overrides, is the
\* same for every permutation of the workspace's project list.
C2_OrderIndependent ==
    /\ depTable # None =>
           \A q \in Perms(Projects) : DependencyConstraints(q) = depTable.val
    /\ ovrTable # None =>
           \A q \in Perms(Projects) : Overrides(q) = ovrTable.val

(***************************************************************************)
(* workspaceCommand.Run.  Each call into dep or gps that can fail is a     *)
(* step whose outcome is chosen; an error value is its message, "nil" the  *)
(* nil error.                                                              *)
(***************************************************************************)
Nil == "nil"

\* what getProjects stores for a package whose LoadProject failed: the
\* error is dropped and the slot holds a nil *dep.Project
NilProject == [nil |-> TRUE]

\* the manifests Run's workspaces are drawn from
RunManifests == [deps : Tables({"a"}), ovr : {EmptyTable}]

\* handleAllTheFailuresOfTheWorld is defined outside this file; the command's
\* contract is a non-zero exit with the conflict trace on a solve failure
handleAllTheFailuresOfTheWorld(err) == <<"Solving failure", err>>

Return(err) ==
    /\ pc' = "done"
    /\ runErr' = Some(err)

\* the name of the i-th package of the workspace manifest, which is the
\* ImportRoot of its project
PackageName(i) == <<"p", "/">> \o <<CASE i = 1 -> "a" [] i = 2 -> "b" [] OTHER -> "c">>

\* w.AbsRoot, the working directory
WorkspaceAbs == <<"/", "w">>

\* p.ParseRootPackageTree() of the i-th project: its packages, keyed by
\* import paths under its ImportRoot
ProjectTree(i) ==
    [ImportRoot |-> PackageName(i),
     Packages |-> [k \in {PackageName(i), PackageName(i) \o <<"/", "x">>}
                      |-> PackageName(i)]]

\* Workspace.ParseRootPackageTree
WorkspaceParseRootPackageTree(ps) ==
    [ImportRoot |-> WorkspaceAbs,
     Packages |->
        [imp \in UNION {DOMAIN ProjectTree(i).Packages : i \in DOMAIN ps} |->
            ProjectTree(CHOOSE i \in DOMAIN ps :
                            imp \in DOMAIN ProjectTree(i).Packages).Packages[imp]]]

\* w, err := NewWorkspace(ctx): getProjects always returns a nil error
RunNewWorkspace ==
    /\ pc = "start"
    /\ \E ps \in SeqsUpTo(RunManifests \cup {NilProject}, MaxProjects) :
           Projects' = ps
    /\ pc' = "sourcemgr"
    /\ UNCHANGED <<depTable, ovrTable, dryRun, runErr, solverInput, solved,
                   wrote, symlinks, printed, rootTree, projVars>>

\* sm, err := ctx.SourceManager()
RunSourceManager ==
    /\ pc = "sourcemgr"
    /\ \/ Return("source manager") /\ UNCHANGED <<>>
       \/ pc' = "validate" /\ UNCHANGED runErr
    /\ UNCHANGED <<aggVars, dryRun, solverInput, solved, wrote, symlinks,
                   printed, rootTree, projVars>>

\* for _, p := range w.Projects { dep.ValidateProjectRoots(ctx, p.Manifest, sm) }
\* p.Manifest on a nil project is a nil-pointer dereference
RunValidateProjectRoots ==
    /\ pc = "validate"
    /\ \/ /\ NilProject \in Range(Projects)
          /\ Return("panic: nil pointer dereference")
       \/ /\ Projects # <<>>
          /\ NilProject \notin Range(Projects)
          /\ Return("validate project roots")
       \/ /\ NilProject \notin Range(Projects)
          /\ pc' = "parse" /\ UNCHANGED runErr
    /\ UNCHANGED <<aggVars, dryRun, solverInput, solved, wrote, symlinks,
                   printed, rootTree, projVars>>

\* params.RootPackageTree, err = w.ParseRootPackageTree(): err is always nil
RunParseRootPackageTree ==
    /\ pc = "parse"
    /\ rootTree' = Some(WorkspaceParseRootPackageTree(Projects))
    /\ pc' = "checkerrors"
    /\ UNCHANGED <<aggVars, dryRun, runErr, solverInput, solved, wrote,
                   symlinks, printed, projVars>>

\* for _, p := range w.Projects { checkErrors(...) }: a fatal error returns
RunCheckErrors ==
    /\ pc = "checkerrors"
    /\ \/ /\ Projects # <<>>
          /\ Return("all dirs contained errors")
       \/ pc' = "args" /\ UNCHANGED runErr
    /\ UNCHANGED <<aggVars, dryRun, solverInput, solved, wrote, symlinks,
                   printed, rootTree, projVars>>

\* if len(args) != 0
RunCheckArgs ==
    /\ pc = "args"
    /\ \E nargs \in 0..1 :
          IF nargs # 0
          THEN Return("dep workspace only takes spec arguments with -add or -update")
          ELSE pc' = "validateparams" /\ UNCHANGED runErr
    /\ UNCHANGED <<aggVars, dryRun, solverInput, solved, wrote, symlinks,
                   printed, rootTree, projVars>>

\* ctx.ValidateParams(sm, params)
RunValidateParams ==
    /\ pc = "validateparams"
    /\ \/ Return("validate params") /\ UNCHANGED <<>>
       \/ pc' = "prepare" /\ UNCHANGED runErr
    /\ UNCHANGED <<aggVars, dryRun, solverInput, solved, wrote, symlinks,
                   printed, rootTree, projVars>>

\* solver, err := gps.Prepare(params, sm): params.Manifest is the workspace,
\* whose DependencyConstraints and Overrides the solver reads
RunPrepare ==
    /\ pc = "prepare"
    /\ solverInput' = Some([deps |-> DependencyConstraints(Projects),
                            ovr |-> Overrides(Projects)])
    /\ \/ Return("prepare solver") /\ UNCHANGED <<>>
       \/ pc' = "solve" /\ UNCHANGED runErr
    /\ UNCHANGED <<aggVars, dryRun, solved, wrote, symlinks, printed,
                   rootTree, projVars>>

\* solution, err := solver.Solve(context.TODO())
RunSolve ==
    /\ pc = "solve"
    /\ \/ /\ solved' = "failed"
          /\ Return(handleAllTheFailuresOfTheWorld("no solution"))
       \/ /\ solved' = "solution"
          /\ pc' = "safewriter" /\ UNCHANGED runErr
    /\ UNCHANGED <<aggVars, dryRun, solverInput, wrote, symlinks, printed,
                   rootTree, projVars>>

\* RunNewSafeWriter without the test of cmd.dryRun
RunNewSafeWriterIgnoringDryRun ==
    /\ pc = "safewriter"
    /\ \/ /\ Return("new safe writer")
          /\ UNCHANGED printed
       \/ /\ pc' = "write"
          /\ UNCHANGED <<runErr, printed>>
    /\ UNCHANGED <<aggVars, dryRun, solverInput, solved, wrote, symlinks,
                   rootTree, projVars>>

\* sw, err := dep.NewSafeWriter(...); if cmd.dryRun { return sw.PrintPreparedActions(...) }
RunNewSafeWriter ==
    /\ pc = "safewriter"
    /\ \/ /\ Return("new safe writer")
          /\ UNCHANGED printed
       \/ /\ dryRun
          /\ printed' = TRUE
          /\ \E err \in {Nil, "print prepared actions"} : Return(err)
       \/ /\ ~dryRun
          /\ pc' = "write"
          /\ UNCHANGED <<runErr, printed>>
    /\ UNCHANGED <<aggVars, dryRun, solverInput, solved, wrote, symlinks,
                   rootTree, projVars>>

\* err = sw.Write(w.AbsRoot, sm, false, logger)
RunWrite ==
    /\ pc = "write"
    /\ wrote' = TRUE
    /\ \/ Return("grouped write of manifest, lock and vendor") /\ UNCHANGED <<>>
       \/ pc' = "symlinks" /\ UNCHANGED runErr
    /\ UNCHANGED <<aggVars, dryRun, solverInput, solved, symlinks, printed,
                   rootTree, projVars>>

\* for _, p := range w.Manifest.Packages { os.Symlink ...; os.MkdirAll ...;
\* os.Symlink ... }; return nil.  Every error is discarded.
RunSymlinks ==
    /\ pc = "symlinks"
    /\ symlinks' = DOMAIN Projects
    /\ Return(Nil)
    /\ UNCHANGED <<aggVars, dryRun, solverInput, solved, wrote, printed,
                   rootTree, projVars>>

InitRun ==
    /\ InitAggVars
    /\ pc = "start"
    /\ dryRun \in BOOLEAN
    /\ runErr = None
    /\ solverInput = None
    /\ solved = "not called"
    /\ wrote = FALSE
    /\ symlinks = {}
    /\ printed = FALSE
    /\ rootTree = None
    /\ InitProjVars

NextRun ==
    \/ RunNewWorkspace
    \/ RunSourceManager
    \/ RunValidateProjectRoots
    \/ RunParseRootPackageTree
    \/ RunCheckErrors
    \/ RunCheckArgs
    \/ RunValidateParams
    \/ RunPrepare
    \/ RunSolve
    \/ RunNewSafeWriter
    \/ RunWrite
    \/ RunSymlinks

SpecRun == InitRun /\ [][NextRun]_vars

(***************************************************************************)
(* C3, C8                                                                  *)
(***************************************************************************)
\* two manifests declare constraints on the same root with an empty
\* intersection
UnsatByConstruction(ps) ==
    \E i, j \in DOMAIN ps : \E root \in Roots :
        /\ ps[i] # NilProject /\ ps[j] # NilProject
        /\ root \in DOMAIN ps[i].deps /\ root \in DOMAIN ps[j].deps
        /\ ps[i].deps[root].Constraint \cap ps[j].deps[root].Constraint = {}

\* C3: when two manifests declare constraints on the same ProjectRoot whose
\* intersection is empty, Run returns before the solver is prepared or Solve
\* is called.
C3_ConflictStopsBeforeSolver ==
    UnsatByConstruction(Projects) =>
        solverInput = None /\ pc # "solve" /\ solved = "not called"

\* C8: the write and the symlinks happen only after Solve returned a
\* Solution and only when dry-run is not set; a failed solve returns a
\* non-nil error with nothing written; a dry run prints the prepared actions
\* and returns without a write or a symlink.
C8_WriteOnlyAfterSolve ==
    /\ (wrote \/ symlinks # {} \/ pc \in {"write", "symlinks"}) =>
           solved = "solution" /\ ~dryRun
    /\ symlinks # {} => wrote
    /\ solved = "failed" =>
           pc = "done" /\ runErr # Some(Nil) /\ ~wrote /\ symlinks = {}
    /\ printed => dryRun /\ solved = "solution" /\ pc = "done"
    /\ (pc = "done" /\ dryRun /\ runErr = Some(Nil)) => printed

\* Run finished a solve in apply mode: the write and the symlinks were made
C8_Witness ==
    pc = "done" /\ solved = "solution" /\ ~dryRun /\ wrote /\ symlinks # {}

(***************************************************************************)
(* Strings, as sequences of characters                                     *)
(***************************************************************************)
Slash == <<"/">>

\* strings.HasPrefix
HasPrefix(s, prefix) ==
    Len(s) >= Len(prefix) /\ SubSeq(s, 1, Len(prefix)) = prefix

\* filepath.Join(a, b) for clean, non-empty a and b: Clean drops a "." element
Join(a, b) == IF b = <<".">> THEN a ELSE a \o Slash \o b

\* the byte of a character
Ord(c) ==
    CASE c = "." -> 46 [] c = "/" -> 47 [] c = "a" -> 97 [] c = "b" -> 98
      [] c = "c" -> 99 [] c = "g" -> 103 [] c = "h" -> 104 [] c = "p" -> 112
      [] c = "r" -> 114 [] c = "s" -> 115 [] c = "w" -> 119 [] c = "x" -> 120

\* strings.Compare: -1, 0 or 1 by the lexicographic order of the bytes
RECURSIVE Compare(_, _)
Compare(s, t) ==
    IF s = <<>> THEN (IF t = <<>> THEN 0 ELSE -1)
    ELSE IF t = <<>> THEN 1
    ELSE IF Ord(Head(s)) < Ord(Head(t)) THEN -1
    ELSE IF Ord(Head(s)) > Ord(Head(t)) THEN 1
    ELSE Compare(Tail(s), Tail(t))

(***************************************************************************)
(* The projects WrapProject is given                                       *)
(***************************************************************************)
\* p.ImportRoot and p.AbsRoot (= p.ResolvedAbsRoot) of the root project
RootImport == <<"r">>

RootAbs == <<"/", "w">>

\* the entries Meta.LocalGopaths and Meta.LocalDeps are drawn from
GopathNames == {<<"g">>, <<"h">>}

SubNames == {<<"s">>, <<"r", "/", "x">>}

\* manifestFromProject(p) = nil
NilManifest == [nil |-> TRUE]

\* the Meta of a manifest
Metas ==
    [IsKdepRoot : {TRUE}, IsKdepChild : {FALSE}, GodepCompat : {FALSE},
     LocalDeps : SeqsUpTo(SubNames, MaxLocalDeps),
     LocalGopaths : SeqsUpTo(GopathNames, MaxLocalGopaths)]
    \cup
    [IsKdepRoot : {FALSE}, IsKdepChild : BOOLEAN, GodepCompat : {FALSE},
     LocalDeps : {<<>>}, LocalGopaths : {<<>>}]

InputManifests == Metas \cup {NilManifest}

\* candidate := filepath.Join(p.ResolvedAbsRoot, path, "src", sub)
Candidate(path, sub) == Join(Join(Join(RootAbs, path), <<"s", "r", "c">>), sub)

Candidates(m) ==
    {Candidate(m.LocalGopaths[j], m.LocalDeps[i]) :
        i \in DOMAIN m.LocalDeps, j \in DOMAIN m.LocalGopaths}

\* the first entry of LocalGopaths under which sub exists (os.Stat succeeds),
\* 0 when there is none: the inner loop breaks at the first hit
RECURSIVE FirstGopath(_, _, _, _)
FirstGopath(m, sub, fs, j) ==
    IF j > Len(m.LocalGopaths) THEN 0
    ELSE IF Candidate(m.LocalGopaths[j], sub) \in fs THEN j
    ELSE FirstGopath(m, sub, fs, j + 1)

FoundDir(m, sub, fs) ==
    Candidate(m.LocalGopaths[FirstGopath(m, sub, fs, 1)], sub)

\* sps after the loop: make([]*dep.Project, len(LocalDeps)) starts as nils,
\* and sps[i] is set only when a candidate was found
SubProjectsOf(m, fs) ==
    [i \in DOMAIN m.LocalDeps |->
        IF FirstGopath(m, m.LocalDeps[i], fs, 1) = 0
        THEN NilProject
        ELSE [ImportRoot |-> m.LocalDeps[i],
              dir |-> FoundDir(m, m.LocalDeps[i], fs)]]

FoundSubs(m, fs) ==
    {m.LocalDeps[i] : i \in {k \in DOMAIN m.LocalDeps :
                                FirstGopath(m, m.LocalDeps[k], fs, 1) # 0}}

\* extra[imp] = candidate
ExtraVendorEntriesOf(m, fs) ==
    [imp \in FoundSubs(m, fs) |-> FoundDir(m, imp, fs)]

\* sms[imp] = proj.Manifest: the manifest loaded from the found directory
SubManifestsOf(m, fs) ==
    [imp \in FoundSubs(m, fs) |-> [loadedFrom |-> FoundDir(m, imp, fs)]]

\* the condition of WrapProject's first if, which sets FallbackToDep
NotKdep(m) == m = NilManifest \/ (~m.IsKdepRoot /\ ~m.IsKdepChild)

\* WrapProject(p, c)
WrapProject ==
    \E m \in InputManifests :
        LET fallback == FallbackToDep \/ NotKdep(m)
        IN  /\ FallbackToDep' = fallback
            /\ call' = None
            /\ IF fallback
               THEN wrapped' = Some([manifest |-> m, err |-> Nil,
                                     mode |-> "fallback",
                                     SubProjects |-> <<>>,
                                     SubManifests |-> <<>>,
                                     extraVendorEntries |-> <<>>])
               ELSE IF ~m.IsKdepRoot
               THEN wrapped' = Some([manifest |-> m, err |-> "not a kdep root",
                                     mode |-> "kdep",
                                     SubProjects |-> <<>>,
                                     SubManifests |-> <<>>,
                                     extraVendorEntries |-> <<>>])
               ELSE \E fs \in SUBSET Candidates(m) :
                    \E err \in {Nil, "load project", "package dependencies"} :
                        /\ err = "load project" => FoundSubs(m, fs) # {}
                        /\ wrapped' = Some(
                             [manifest |-> m, err |-> err, mode |-> "kdep",
                              SubProjects |->
                                  IF err = Nil THEN SubProjectsOf(m, fs) ELSE <<>>,
                              SubManifests |->
                                  IF err = Nil THEN SubManifestsOf(m, fs) ELSE <<>>,
                              extraVendorEntries |->
                                  IF err = Nil THEN ExtraVendorEntriesOf(m, fs)
                                  ELSE <<>>])
            /\ UNCHANGED <<aggVars, runVars, solution>>

\* a Project the caller holds: WrapProject returned it with a nil error
Holding == wrapped # None /\ wrapped.val.err = Nil

(***************************************************************************)
(* Package trees: ImportRoot and Packages, a map from import path to       *)
(* PackageOrErr (here the name of the project whose parse produced it)     *)
(***************************************************************************)
RootKeys ==
    {RootImport,
     Join(RootImport, <<"x">>),
     Join(Join(Join(RootImport, <<"g">>), <<"s", "r", "c">>), <<"s">>),
     Join(RootImport, <<"g", "x">>)}

\* what dep's Project.ParseRootPackageTree can return for the root project:
\* every key lies under the ImportRoot
RootTrees ==
    {[ImportRoot |-> RootImport, Packages |-> [k \in K |-> RootImport]] :
        K \in SUBSET RootKeys}

EmptyTree == [ImportRoot |-> <<>>, Packages |-> <<>>]

\* what it can return for a sub-project whose ImportRoot was set to sub: its
\* packages, or with an error the zero tree
SubTrees(sub) ==
    {EmptyTree,
     [ImportRoot |-> sub,
      Packages |-> [k \in {sub, Join(sub, <<"p">>)} |-> sub]]}

\* delete(tree.Packages, imp) for every imp with
\* strings.HasPrefix(imp, string(p.ImportRoot)+"/"+gp) for some gp
Cleanup(packages, gopaths) ==
    [imp \in {k \in DOMAIN packages :
                 ~\E j \in DOMAIN gopaths :
                     HasPrefix(k, RootImport \o Slash \o gopaths[j])}
        |-> packages[imp]]

\* for imp, pack := range t.Packages { tree.Packages[imp] = pack }
CopyInto(packages, t) ==
    [imp \in DOMAIN packages \cup DOMAIN t.Packages |->
        IF imp \in DOMAIN t.Packages THEN t.Packages[imp] ELSE packages[imp]]

RECURSIVE MergeSubs(_, _, _)
MergeSubs(packages, ts, i) ==
    IF i > Len(ts) THEN packages
    ELSE MergeSubs(CopyInto(packages, ts[i]), ts, i + 1)

\* the choices of what each sub-project's ParseRootPackageTree returns
SubTreeChoices(sps) ==
    {ts \in [DOMAIN sps -> UNION {SubTrees(sub) : sub \in SubNames}] :
        \A i \in DOMAIN sps :
            sps[i] # NilProject => ts[i] \in SubTrees(sps[i].ImportRoot)}

Panic == [panic |-> "nil pointer dereference"]

\* Project.ParseRootPackageTree
ParseRootPackageTree ==
    /\ Holding
    /\ \E base \in RootTrees, err \in {Nil, "list packages"} :
       \E ts \in SubTreeChoices(wrapped.val.SubProjects) :
           call' = Some(
             [op |-> "ParseRootPackageTree",
              mode |-> IF FallbackToDep THEN "fallback" ELSE "kdep",
              base |-> base,
              subTrees |-> ts,
              result |->
                 IF FallbackToDep \/ err # Nil
                 THEN [tree |-> base, err |-> err]
                 ELSE IF NilProject \in Range(wrapped.val.SubProjects)
                 THEN Panic
                 ELSE [tree |->
                          [ImportRoot |-> base.ImportRoot,
                           Packages |->
                              MergeSubs(Cleanup(base.Packages,
                                            wrapped.val.manifest.LocalGopaths),
                                        ts, 1)],
                       err |-> Nil]])
    /\ UNCHANGED <<aggVars, runVars, FallbackToDep, wrapped, solution>>

\* Project.MakeParams
MakeParams ==
    /\ Holding
    /\ call' = Some([op |-> "MakeParams",
                     mode |-> IF FallbackToDep THEN "fallback" ELSE "kdep"])
    /\ UNCHANGED <<aggVars, runVars, FallbackToDep, wrapped, solution>>

\* Project.HackExtraVendorEntries: os.MkdirAll and os.Symlink may fail for
\* any entry; their errors are discarded and nil is returned
HackExtraVendorEntries ==
    /\ Holding
    /\ IF FallbackToDep
       THEN call' = Some([op |-> "HackExtraVendorEntries", mode |-> "fallback",
                          linked |-> {}, failed |-> {}, err |-> Nil])
       ELSE \E failed \in SUBSET DOMAIN wrapped.val.extraVendorEntries :
                call' = Some(
                  [op |-> "HackExtraVendorEntries", mode |-> "kdep",
                   linked |-> DOMAIN wrapped.val.extraVendorEntries \ failed,
                   failed |-> failed,
                   err |-> Nil])
    /\ UNCHANGED <<aggVars, runVars, FallbackToDep, wrapped, solution>>

InitProject == InitAggVars /\ InitRunVars /\ InitProjVars

NextProject ==
    \/ WrapProject
    \/ ParseRootPackageTree
    \/ MakeParams
    \/ HackExtraVendorEntries

SpecProject == InitProject /\ [][NextProject]_vars

(***************************************************************************)
(* C4, C5, C6, C9, C10                                                     *)
(***************************************************************************)
Returned(op) == call # None /\ call.val.op = op

\* ParseRootPackageTree returned a merged tree: non-fallback mode, no error
ReturnedMergedTree ==
    /\ Returned("ParseRootPackageTree")
    /\ call.val.mode = "kdep"
    /\ call.val.result # Panic
    /\ call.val.result.err = Nil

\* imp is the path region or lies below it
Under(imp, region) == imp = region \/ HasPrefix(imp, region \o Slash)

InStrippedRegion(imp, gopaths) ==
    \E j \in DOMAIN gopaths : Under(imp, Join(RootImport, gopaths[j]))

\* the sub-project trees that hold imp
Holders(ts, imp) == {i \in DOMAIN ts : imp \in DOMAIN ts[i].Packages}

Last(S) == CHOOSE i \in S : \A j \in S : j <= i

\* the reference merge: the root's entries outside the stripped regions, then
\* every entry of every sub-project tree, the sub-project winning
ReferenceMerge(base, gopaths, ts) ==
    LET kept == {k \in DOMAIN base.Packages : ~InStrippedRegion(k, gopaths)}
        over == UNION {DOMAIN ts[i].Packages : i \in DOMAIN ts}
    IN  [imp \in kept \cup over |->
            IF imp \in over
            THEN ts[Last(Holders(ts, imp))].Packages[imp]
            ELSE base.Packages[imp]]

\* C4: in non-fallback mode the tree ParseRootPackageTree returns is the
\* reference merge of the root's tree and the sub-project trees.
C4_TreeIsReferenceMerge ==
    ReturnedMergedTree =>
        call.val.result.tree.Packages =
            ReferenceMerge(call.val.base, wrapped.val.manifest.LocalGopaths,
                           call.val.subTrees)

\* C5: every key of the tree ParseRootPackageTree returns with sub-projects
\* merged in is equal to, or prefixed by, the tree's ImportRoot.
\* The same of the tree Workspace.ParseRootPackageTree returns.
C5_KeysUnderImportRoot ==
    /\ ReturnedMergedTree =>
           \A imp \in DOMAIN call.val.result.tree.Packages :
               HasPrefix(imp, call.val.result.tree.ImportRoot)
    /\ rootTree # None =>
           \A imp \in DOMAIN rootTree.val.Packages :
               HasPrefix(imp, rootTree.val.ImportRoot)

\* the mode a project's own manifest calls for
ModeOf(m) == IF NotKdep(m) THEN "fallback" ELSE "kdep"

\* C6: the mode WrapProject and the Project's methods apply to a project
\* depends only on that project's own manifest.
C6_ModeFollowsManifest ==
    /\ wrapped # None => wrapped.val.mode = ModeOf(wrapped.val.manifest)
    /\ call # None => call.val.mode = ModeOf(wrapped.val.manifest)

\* C9: whenever creating a vendor directory or symlink fails for some local
\* package, HackExtraVendorEntries reports the failure to its caller.
C9_VendorFailureReported ==
    (Returned("HackExtraVendorEntries") /\ call.val.failed # {}) =>
        call.val.err # Nil

\* C10: after a successful non-fallback WrapProject, SubProjects holds one
\* loaded project per entry of LocalDeps, in order, each with an entry in the
\* sub-manifest and extra-vendor tables, and ParseRootPackageTree never
\* dereferences a missing sub-project.
C10_SubProjectsLoaded ==
    /\ (Holding /\ wrapped.val.mode = "kdep") =>
           LET deps == wrapped.val.manifest.LocalDeps
               sps == wrapped.val.SubProjects
           IN  /\ Len(sps) = Len(deps)
               /\ \A i \in DOMAIN deps :
                      /\ sps[i] # NilProject
                      /\ sps[i].ImportRoot = deps[i]
                      /\ deps[i] \in DOMAIN wrapped.val.SubManifests
                      /\ deps[i] \in DOMAIN wrapped.val.extraVendorEntries
    /\ Returned("ParseRootPackageTree") => call.val.result # Panic

(***************************************************************************)
(* The Godeps export                                                       *)
(***************************************************************************)
\* the ProjectRoots of a Solution: no root lies below another
SolutionRoots == {<<"a">>, <<"a", ".", "c">>, <<"b">>}

\* gps.VersionComponentStrings(p.Version()): the revision and, for a version
\* paired with one, the version string
LockedVersions == {[rev |-> "rev1", ver |-> ""], [rev |-> "rev2", ver |-> "v1.0.0"]}

\* p.Packages(): the packages of a locked project, each once
PackageLists ==
    {<<>>, <<<<".">>>>, <<<<"x">>>>, <<<<".">>, <<"x">>>>, <<<<"x">>, <<".">>>>}

LockedProjects == [root : SolutionRoots, version : LockedVersions, pkgs : PackageLists]

\* s.Projects(), in the order the Solution lists them
Solutions ==
    {s \in SeqsUpTo(LockedProjects, MaxSolutionProjects) :
        \A i, j \in DOMAIN s : s[i].root = s[j].root => i = j}

\* the dependency built for one package of one project
Dependency(lp, pkg) ==
    [ImportPath |-> Join(lp.root, pkg),
     Comment |-> lp.version.ver,
     Rev |-> lp.version.rev]

\* the inner loop: for _, pkg := range p.Packages() { deps = append(deps, dep) }
ProjectDeps(lp) == [k \in DOMAIN lp.pkgs |-> Dependency(lp, lp.pkgs[k])]

\* the outer loop over s.Projects()
RECURSIVE CollectDeps(_, _)
CollectDeps(s, i) ==
    IF i > Len(s) THEN <<>>
    ELSE ProjectDeps(s[i]) \o CollectDeps(s, i + 1)

\* the less function handed to sort.Slice
Less(a, b) == Compare(a.ImportPath, b.ImportPath) < 0

RECURSIVE Insert(_, _)
Insert(x, sorted) ==
    IF sorted = <<>> THEN <<x>>
    ELSE IF Less(x, Head(sorted)) THEN <<x>> \o sorted
    ELSE <<Head(sorted)>> \o Insert(x, Tail(sorted))

RECURSIVE InsertAll(_, _)
InsertAll(deps, sorted) ==
    IF deps = <<>> THEN sorted
    ELSE InsertAll(Tail(deps), Insert(Head(deps), sorted))

\* dumpToFile without the sort: the list is written as collected
SortSliceSkipped(deps) == deps

\* sort.Slice(gd.Deps, less): the list ordered by less (the ImportPaths of a
\* Solution are distinct, so the order is the only one)
SortSlice(deps) == InsertAll(deps, <<>>)

\* what dumpToFile marshals
GodepsFile(s) ==
    [Comment |-> "GENERATED BY DEP, DO NOT EDIT",
     ImportPath |-> RootImport,
     Deps |-> SortSlice(CollectDeps(s, 1))]

\* Project.HackGodepsCompat(s), with godeps.dumpToFile
HackGodepsCompat ==
    /\ Holding
    /\ IF FallbackToDep \/ ~wrapped.val.manifest.GodepCompat
       THEN call' = Some([op |-> "HackGodepsCompat",
                          mode |-> IF FallbackToDep THEN "fallback" ELSE "kdep",
                          written |-> None, err |-> Nil])
       ELSE \E err \in {Nil, "write file"} :
               call' = Some([op |-> "HackGodepsCompat", mode |-> "kdep",
                             written |-> IF err = Nil
                                         THEN Some(GodepsFile(solution))
                                         ELSE None,
                             err |-> err])
    /\ UNCHANGED <<aggVars, runVars, FallbackToDep, wrapped, solution>>

\* a kdep root wrapped in non-fallback mode (FallbackToDep may have been set
\* since by the wrapping of another project) and a Solution to export
InitGodeps ==
    /\ InitAggVars /\ InitRunVars
    /\ FallbackToDep \in BOOLEAN
    /\ \E gc \in BOOLEAN :
          wrapped = Some([manifest |-> [IsKdepRoot |-> TRUE, IsKdepChild |-> FALSE,
                                        GodepCompat |-> gc, LocalDeps |-> <<>>,
                                        LocalGopaths |-> <<>>],
                          err |-> Nil, mode |-> "kdep", SubProjects |-> <<>>,
                          SubManifests |-> <<>>, extraVendorEntries |-> <<>>])
    /\ solution \in Solutions
    /\ call = None

NextGodeps == HackGodepsCompat

SpecGodeps == InitGodeps /\ [][NextGodeps]_vars

(***************************************************************************)
(* C7                                                                      *)
(***************************************************************************)
HackGodepsWrote == Returned("HackGodepsCompat") /\ call.val.written # None

\* the (project, required package) pairs of a Solution
Pairs(s) == UNION {{<<i, k>> : k \in DOMAIN s[i].pkgs} : i \in DOMAIN s}

\* C7: HackGodepsCompat writes a Deps list with exactly one entry per
\* (project, required package) pair of the Solution, each carrying that
\* project's revision, sorted ascending by ImportPath, the same for every
\* order in which the Solution lists its projects.
C7_GodepsIsSortedProjection ==
    HackGodepsWrote =>
        LET deps == call.val.written.val.Deps
            s == solution
        IN  /\ Len(deps) = Cardinality(Pairs(s))
            /\ \A pr \in Pairs(s) :
                   \E j \in DOMAIN deps :
                       /\ deps[j].ImportPath = Join(s[pr[1]].root, s[pr[1]].pkgs[pr[2]])
                       /\ deps[j].Rev = s[pr[1]].version.rev
            /\ \A j, k \in DOMAIN deps :
                   j < k => Compare(deps[j].ImportPath, deps[k].ImportPath) < 0
            /\ \A q \in Perms(s) : GodepsFile(q).Deps = deps

\* an export of a Solution whose projects are not listed in the order of
\* their import paths
C7_Witness ==
    /\ HackGodepsWrote
    /\ Len(solution) >= 2
    /\ CollectDeps(solution, 1) # call.val.written.val.Deps
    /\ Len(call.val.written.val.Deps) >= 3

====
